---- MODULE Spec2Model ----
(***************************************************************************)
(* Fantasy scoring: name normalisation and fuzzy matching                  *)
(* (player_matcher.py), the week-score pipeline (calculator.py), the       *)
(* score records (models.py) and the lineup optimizer.                     *)
(*                                                                         *)
(* Strings that the code normalises (names, team codes, positions) are     *)
(* sequences of one-character strings, so that strip / upper / lower /     *)
(* split / regex substitution are computed and not assumed.                *)
(* Points are integers in thousandths of a point.                          *)
(***************************************************************************)
EXTENDS Integers, Sequences, FiniteSets, TLC

VARIABLES
    pc,                 \* which operation has run: "start" or "done"
    players,            \* calculate_week_score: the roster (list of Player)
    records,            \* calculate_week_score: rows of nfl.load_player_stats
    week,               \* calculate_week_score: requested week
    season,             \* calculate_week_score: requested season
    team_scores,        \* calculate_week_score: returned list of TeamScore
    error,              \* calculate_week_score: the ValueError raised, or NoError
    csv_player,         \* find_player_match: [name, position, team] from the CSV
    player_stats_df,    \* find_player_match: rows of the stats DataFrame
    has_team_column,    \* find_player_match: the frame has recent_team / team
    strict_team_match,  \* find_player_match: flag
    match,              \* find_player_match: index of the returned row, 0 = None
    player_scores,      \* select_optimal_lineup: input list of PlayerScore
    lineup,             \* select_optimal_lineup: returned list
    call_args,          \* arguments of a direct call of one function
    returned,           \* what that call returned or raised
    cache,              \* FFDPFetcher._cache: (season, week) -> week data
    fetch_log           \* FFDPFetcher: the fetch_player_score calls made so far

vars == <<pc, players, records, week, season, team_scores, error,
          csv_player, player_stats_df, has_team_column, strict_team_match,
          match, player_scores, lineup, call_args,
                   returned,
          cache, fetch_log>>

----------------------------------------------------------------------------
(* Characters and Python str methods *)

LowerLetters == <<"a","b","c","d","e","f","g","h","i","j","k","l","m",
                  "n","o","p","q","r","s","t","u","v","w","x","y","z">>

UpperLetters == <<"A","B","C","D","E","F","G","H","I","J","K","L","M",
                  "N","O","P","Q","R","S","T","U","V","W","X","Y","Z">>

Digits == {"0","1","2","3","4","5","6","7","8","9"}

IsSpace(c) == c \in {" ", "\t", "\n"}

IsUpper(c) == \E i \in 1..Len(UpperLetters) : UpperLetters[i] = c

IsLower(c) == \E i \in 1..Len(LowerLetters) : LowerLetters[i] = c

ToLower(c) ==
    IF IsUpper(c)
    THEN LowerLetters[CHOOSE i \in 1..Len(UpperLetters) : UpperLetters[i] = c]
    ELSE c

ToUpper(c) ==
    IF IsLower(c)
    THEN UpperLetters[CHOOSE i \in 1..Len(LowerLetters) : LowerLetters[i] = c]
    ELSE c

\* str.lower()
Lower(s) == IF s = <<>> THEN <<>> ELSE [i \in 1..Len(s) |-> ToLower(s[i])]

\* str.upper()
Upper(s) == IF s = <<>> THEN <<>> ELSE [i \in 1..Len(s) |-> ToUpper(s[i])]

RECURSIVE LStrip(_)
LStrip(s) ==
    IF s = <<>> THEN <<>>
    ELSE IF IsSpace(Head(s)) THEN LStrip(Tail(s)) ELSE s

RECURSIVE RStrip(_)
RStrip(s) ==
    IF s = <<>> THEN <<>>
    ELSE IF IsSpace(s[Len(s)]) THEN RStrip(SubSeq(s, 1, Len(s) - 1)) ELSE s

\* str.strip()
Strip(s) == LStrip(RStrip(s))

RECURSIVE LStripChar(_, _)
LStripChar(s, c) ==
    IF s = <<>> THEN <<>>
    ELSE IF Head(s) = c THEN LStripChar(Tail(s), c) ELSE s

RECURSIVE RStripChar(_, _)
RStripChar(s, c) ==
    IF s = <<>> THEN <<>>
    ELSE IF s[Len(s)] = c THEN RStripChar(SubSeq(s, 1, Len(s) - 1), c) ELSE s

\* str.strip(c) for a single character c
StripChar(s, c) == LStripChar(RStripChar(s, c), c)

\* str.split(): the maximal runs of non-whitespace characters, in order
RECURSIVE SplitFrom(_, _, _)
SplitFrom(s, i, cur) ==
    IF i > Len(s)
    THEN IF cur = <<>> THEN <<>> ELSE <<cur>>
    ELSE IF IsSpace(s[i])
         THEN IF cur = <<>> THEN SplitFrom(s, i + 1, <<>>)
              ELSE <<cur>> \o SplitFrom(s, i + 1, <<>>)
         ELSE SplitFrom(s, i + 1, Append(cur, s[i]))

Split(s) == SplitFrom(s, 1, <<>>)

\* a test that accepts the characters of a anywhere in b, in order
RECURSIVE IsSubstringScattered(_, _)
IsSubstringScattered(a, b) ==
    IF a = <<>> THEN TRUE
    ELSE IF b = <<>> THEN FALSE
    ELSE IF Head(a) = Head(b) THEN IsSubstringScattered(Tail(a), Tail(b))
    ELSE IsSubstringScattered(a, Tail(b))

\* a in b  (substring test; the empty string is in every string)
IsSubstring(a, b) ==
    /\ Len(a) <= Len(b)
    /\ \E i \in 0..(Len(b) - Len(a)) : SubSeq(b, i + 1, i + Len(a)) = a

\* a list compared place by place instead of as a set
ToSetPositional(seq) == {<<i, seq[i]>> : i \in 1..Len(seq)}

\* set(list)
ToSet(seq) == {seq[i] : i \in 1..Len(seq)}

----------------------------------------------------------------------------
(* player_matcher.normalize_name *)

\* the alternatives of the suffix regex, lower-cased (re.IGNORECASE)
SuffixTokens ==
    { <<"j","r">>, <<"j","r",".">>, <<"s","r">>, <<"s","r",".">>,
      <<"i","i">>, <<"i","i","i">>, <<"i","v">>, <<"v">> }

\* the same substitution without re.IGNORECASE
StripSuffixCaseSensitive(s) ==
    LET written == { <<"J","r">>, <<"J","r",".">>, <<"S","r">>,
                     <<"S","r",".">>, <<"I","I">>, <<"I","I","I">>,
                     <<"I","V">>, <<"V">> }
        starts == { k \in 2..Len(s) :
                      /\ IsSpace(s[k - 1])
                      /\ SubSeq(s, k, Len(s)) \in written }
    IN IF starts = {} THEN s
       ELSE LET k == CHOOSE x \in starts : \A y \in starts : x <= y
            IN RStrip(SubSeq(s, 1, k - 1))

\* re.sub(r'\s+(Jr\.?|Sr\.?|II|III|IV|V)$', '', name, flags=re.IGNORECASE):
\* the leftmost match starts at the beginning of the whitespace run that
\* precedes a token reaching the end of the string.
StripSuffix(s) ==
    LET starts == { k \in 2..Len(s) :
                      /\ IsSpace(s[k - 1])
                      /\ Lower(SubSeq(s, k, Len(s))) \in SuffixTokens }
    IN IF starts = {} THEN s
       ELSE LET k == CHOOSE x \in starts : \A y \in starts : x <= y
            IN RStrip(SubSeq(s, 1, k - 1))

\* re.sub(r'\.([A-Z])', r' \1', name): a period followed by a capital
\* becomes a space, the capital is kept
PeriodCapitalToSpace(s) ==
    IF s = <<>> THEN <<>>
    ELSE [i \in 1..Len(s) |->
            IF s[i] = "." /\ i < Len(s) /\ IsUpper(s[i + 1]) THEN " " ELSE s[i]]

\* re.sub(r'\.', ' ', name)
PeriodToSpace(s) ==
    IF s = <<>> THEN <<>>
    ELSE [i \in 1..Len(s) |-> IF s[i] = "." THEN " " ELSE s[i]]

\* a normalization without the final strip()
normalize_name_untrimmed(name) ==
    Lower(PeriodToSpace(PeriodCapitalToSpace(StripSuffix(Strip(name)))))

normalize_name(name) ==
    Strip(Lower(PeriodToSpace(PeriodCapitalToSpace(StripSuffix(Strip(name))))))

----------------------------------------------------------------------------
(* player_matcher.fuzzy_match_name *)

is_initial(word) ==
    LET word_clean == StripChar(word, ".")
    IN Len(word_clean) = 1 /\ word_clean[1] \notin Digits

NonInitials(words) == SelectSeq(words, LAMBDA w : ~is_initial(w))

\* the first element taken for the last
LastAsFirst(seq) == seq[1]

Last(seq) == seq[Len(seq)]

\* a matcher whose containment rule only looks for the CSV name inside the
\* API name
fuzzy_match_name_one_way(csv_name, api_name) ==
    LET csv_normalized == normalize_name(csv_name)
        api_normalized == normalize_name(api_name)
        csv_words == Split(csv_normalized)
        api_words == Split(api_normalized)
        csv_non_initials == NonInitials(csv_words)
        api_non_initials == NonInitials(api_words)
        csv_meaningful ==
            IF csv_non_initials # <<>> THEN csv_non_initials ELSE csv_words
        api_meaningful ==
            IF api_non_initials # <<>> THEN api_non_initials ELSE api_words
    IN
    IF csv_normalized = api_normalized THEN TRUE
    ELSE IF IsSubstring(csv_normalized, api_normalized) THEN TRUE
    ELSE IF csv_words = <<>> \/ api_words = <<>> THEN FALSE
    ELSE IF /\ csv_non_initials # <<>>
            /\ api_non_initials # <<>>
            /\ \/ ToSet(csv_non_initials) \subseteq ToSet(api_non_initials)
               \/ ToSet(api_non_initials) \subseteq ToSet(csv_non_initials)
               \/ Last(csv_non_initials) = Last(api_non_initials)
         THEN TRUE
    ELSE IF /\ csv_meaningful # <<>>
            /\ api_meaningful # <<>>
            /\ Last(csv_meaningful) = Last(api_meaningful)
            /\ \/ Len(csv_meaningful) = 1
               \/ Len(api_meaningful) = 1
               \/ /\ Len(csv_meaningful) >= 2
                  /\ Len(api_meaningful) >= 2
                  /\ {csv_meaningful[1], Last(csv_meaningful)}
                       = {api_meaningful[1], Last(api_meaningful)}
         THEN TRUE
    ELSE FALSE

fuzzy_match_name(csv_name, api_name) ==
    LET csv_normalized == normalize_name(csv_name)
        api_normalized == normalize_name(api_name)
        csv_words == Split(csv_normalized)
        api_words == Split(api_normalized)
        csv_non_initials == NonInitials(csv_words)
        api_non_initials == NonInitials(api_words)
        csv_meaningful ==
            IF csv_non_initials # <<>> THEN csv_non_initials ELSE csv_words
        api_meaningful ==
            IF api_non_initials # <<>> THEN api_non_initials ELSE api_words
    IN
    IF csv_normalized = api_normalized THEN TRUE
    ELSE IF IsSubstring(csv_normalized, api_normalized)
            \/ IsSubstring(api_normalized, csv_normalized) THEN TRUE
    ELSE IF csv_words = <<>> \/ api_words = <<>> THEN FALSE
    ELSE IF /\ csv_non_initials # <<>>
            /\ api_non_initials # <<>>
            /\ \/ ToSet(csv_non_initials) \subseteq ToSet(api_non_initials)
               \/ ToSet(api_non_initials) \subseteq ToSet(csv_non_initials)
               \/ Last(csv_non_initials) = Last(api_non_initials)
         THEN TRUE
    ELSE IF /\ csv_meaningful # <<>>
            /\ api_meaningful # <<>>
            /\ Last(csv_meaningful) = Last(api_meaningful)
            /\ \/ Len(csv_meaningful) = 1
               \/ Len(api_meaningful) = 1
               \/ /\ Len(csv_meaningful) >= 2
                  /\ Len(api_meaningful) >= 2
                  /\ {csv_meaningful[1], Last(csv_meaningful)}
                       = {api_meaningful[1], Last(api_meaningful)}
         THEN TRUE
    ELSE FALSE

----------------------------------------------------------------------------
(* player_matcher.find_player_match *)

\* .str.upper().str.strip() on a column value, .upper().strip() on an argument
UpperStrip(s) == Strip(Upper(s))

\* a scan that keeps the last hit instead of returning at the first
FirstFuzzyMatchKeepsLast(csv_player_name, df, idx) ==
    LET hits == { i \in idx : fuzzy_match_name(csv_player_name, df[i].player_name) }
    IN IF hits = {} THEN 0
       ELSE CHOOSE i \in hits : \A j \in hits : i >= j

\* for idx, row in rows.iterrows(): if fuzzy_match_name(...): return row
\* the first row, in frame order, among the rows idx whose player_name
\* fuzzy-matches the CSV name; 0 when the scan finds none
FirstFuzzyMatch(csv_player_name, df, idx) ==
    LET hits == { i \in idx : fuzzy_match_name(csv_player_name, df[i].player_name) }
    IN IF hits = {} THEN 0
       ELSE CHOOSE i \in hits : \A j \in hits : i <= j

\* a position filter that lets every row through
PositionMatchesAnyPosition(df, csv_position) == 1..Len(df)

\* player_stats_df[player_stats_df["position"].str.upper().str.strip() == csv_position]
PositionMatches(df, csv_position) ==
    { i \in 1..Len(df) : UpperStrip(df[i].position) = csv_position }

\* a team filter that lets every team through
ExactTeamMatchesAnyTeam(df, position_matches, csv_team) == position_matches

\* a team filter that is skipped, so that only the team-ignoring scan runs
ExactTeamMatchesNone(df, position_matches, csv_team) == {}

\* position_matches[position_matches[team_column].str.upper().str.strip() == csv_team]
ExactTeamMatches(df, position_matches, csv_team) ==
    { i \in position_matches : UpperStrip(df[i].team) = csv_team }

\* returns the index of the matched row of df, 0 for None
find_player_match(csv_player_name, csv_player_position, csv_player_team, df, team_column_present, strict) ==
    LET csv_position == UpperStrip(csv_player_position)
        csv_team == UpperStrip(csv_player_team)
        position_matches == PositionMatches(df, csv_position)
        exact_team_matches == ExactTeamMatches(df, position_matches, csv_team)
        exact == FirstFuzzyMatch(csv_player_name, df, exact_team_matches)
    IN
    IF position_matches = {} THEN 0
    ELSE IF team_column_present
         THEN IF exact # 0 THEN exact
              ELSE IF ~strict
                   THEN FirstFuzzyMatch(csv_player_name, df, position_matches)
                   ELSE 0
         ELSE FirstFuzzyMatch(csv_player_name, df, position_matches)

----------------------------------------------------------------------------
(* calculator.calculate_player_fantasy_points, in thousandths of a point *)

\* float(player_row.get(field, 0) or 0): an absent field counts as 0, and so
\* does a field holding None, which a row carries here as an absent field
Stat(player_row, field) ==
    IF field \in DOMAIN player_row.stats THEN player_row.stats[field] ELSE 0

\* a formula that compares the position as written, without upper()
calculate_player_fantasy_points_as_written(player_row, position) ==
    IF position = <<"Q","B">>
    THEN   Stat(player_row, "passing_yards") * 40
         + Stat(player_row, "passing_tds") * 4000
         - Stat(player_row, "interceptions") * 2000
         + Stat(player_row, "rushing_yards") * 100
         + Stat(player_row, "rushing_tds") * 6000
    ELSE   Stat(player_row, "rushing_yards") * 100
         + Stat(player_row, "rushing_tds") * 6000
         + Stat(player_row, "receiving_yards") * 100
         + Stat(player_row, "receiving_tds") * 6000
         + Stat(player_row, "receptions") * 500

calculate_player_fantasy_points(player_row, position) ==
    IF Upper(position) = <<"Q","B">>
    THEN   Stat(player_row, "passing_yards") * 40
         + Stat(player_row, "passing_tds") * 4000
         - Stat(player_row, "interceptions") * 2000
         + Stat(player_row, "rushing_yards") * 100
         + Stat(player_row, "rushing_tds") * 6000
    ELSE   Stat(player_row, "rushing_yards") * 100
         + Stat(player_row, "rushing_tds") * 6000
         + Stat(player_row, "receiving_yards") * 100
         + Stat(player_row, "receiving_tds") * 6000
         + Stat(player_row, "receptions") * 500

\* round(x, 2): to the nearest hundredth, ties to the even hundredth
Round2(p) ==
    LET q == p \div 10
        r == p % 10
    IN IF r < 5 THEN q * 10
       ELSE IF r > 5 THEN (q + 1) * 10
       ELSE IF q % 2 = 0 THEN q * 10 ELSE (q + 1) * 10

Abs(x) == IF x < 0 THEN -x ELSE x

RECURSIVE SumPoints(_)
SumPoints(scores) ==
    IF scores = <<>> THEN 0
    ELSE Head(scores).fantasy_points + SumPoints(Tail(scores))

----------------------------------------------------------------------------
(* models.PlayerScore and models.TeamScore *)

\* a check that also rejects zero
PlayerScoreValidPositiveOnly(fantasy_points) == ~(fantasy_points <= 0)

\* PlayerScore.__post_init__ accepts the value
PlayerScoreValid(fantasy_points) == ~(fantasy_points < 0)

PlayerScore(player_name, player_team, player_position, wk, sn, fantasy_points) ==
    [player_name |-> player_name, player_team |-> player_team,
     player_position |-> player_position, week |-> wk, season |-> sn,
     fantasy_points |-> fantasy_points]

\* a check that already rejects a deviation of exactly 0.01
TeamScoreValidBelowTolerance(total_points, scores) ==
    ~(Abs(total_points - SumPoints(scores)) >= 10)

\* TeamScore.__post_init__ accepts the value (0.01 is 10 thousandths)
TeamScoreValid(total_points, scores) ==
    ~(Abs(total_points - SumPoints(scores)) > 10)

TeamScore(fantasy_team, wk, sn, total_points, scores) ==
    [fantasy_team |-> fantasy_team, week |-> wk, season |-> sn,
     total_points |-> total_points, player_scores |-> scores]

----------------------------------------------------------------------------
(* calculator.calculate_week_score *)

NoError == [kind |-> "none"]

\* the local helpers normalize_name / normalize_team / normalize_position
calc_normalize_name(name) == Strip(Lower(name))

calc_normalize_team(team) == Strip(Upper(team))

calc_normalize_position(position) == Strip(Upper(position))

LookupKey(name, team, position) ==
    <<calc_normalize_name(name), calc_normalize_team(team),
      calc_normalize_position(position)>>

\* week_stats: the rows of the requested season and week, in frame order
WeekStats(rows, wk, sn) ==
    SelectSeq(rows, LAMBDA r : r.season = sn /\ r.week = wk)

\* score_lookup[key] = value on an insertion-ordered dict: an existing key
\* keeps its place and takes the new value, a new key goes to the end
DictSet(d, key, value) ==
    IF \E i \in 1..Len(d) : d[i].key = key
    THEN [i \in 1..Len(d) |->
            IF d[i].key = key THEN [key |-> key, score |-> value] ELSE d[i]]
    ELSE Append(d, [key |-> key, score |-> value])

RowPoints(row) == Round2(calculate_player_fantasy_points(row, row.position))

RowScore(row, wk, sn) ==
    PlayerScore(row.player_name, Upper(row.team), Upper(row.position),
                wk, sn, RowPoints(row))

\* the loop over week_stats.iterrows(): [ok, lookup]; ok is FALSE when a
\* PlayerScore construction raised
RECURSIVE BuildScoreLookup(_, _, _, _)
BuildScoreLookup(rows, d, wk, sn) ==
    IF rows = <<>> THEN [ok |-> TRUE, lookup |-> d]
    ELSE LET row == Head(rows)
         IN IF ~PlayerScoreValid(RowPoints(row))
            THEN [ok |-> FALSE, lookup |-> d]
            ELSE BuildScoreLookup(
                    Tail(rows),
                    DictSet(d, LookupKey(row.player_name, row.team, row.position),
                            RowScore(row, wk, sn)),
                    wk, sn)

\* a lookup that takes the first entry with the name and position, whatever
\* the team
LookupIndexIgnoringTeam(d, player) ==
    LET key == LookupKey(player.player_name, player.player_team,
                         player.player_position)
        loose == { i \in 1..Len(d) :
                     d[i].key[1] = key[1] /\ d[i].key[3] = key[3] }
    IN IF loose # {} THEN CHOOSE i \in loose : \A j \in loose : i <= j
       ELSE 0

\* the index in score_lookup of the entry used for a roster player, 0 if none:
\* score_lookup.get(key), then the first entry with the same name and position
LookupIndex(d, player) ==
    LET key == LookupKey(player.player_name, player.player_team,
                         player.player_position)
        exact == { i \in 1..Len(d) : d[i].key = key }
        loose == { i \in 1..Len(d) :
                     d[i].key[1] = key[1] /\ d[i].key[3] = key[3] }
    IN IF exact # {} THEN CHOOSE i \in exact : TRUE
       ELSE IF loose # {} THEN CHOOSE i \in loose : \A j \in loose : i <= j
       ELSE 0

\* the keys of teams_dict in insertion order
RECURSIVE TeamsInOrder(_, _)
TeamsInOrder(roster, seen) ==
    IF roster = <<>> THEN seen
    ELSE IF \E i \in 1..Len(seen) : seen[i] = Head(roster).fantasy_team
         THEN TeamsInOrder(Tail(roster), seen)
         ELSE TeamsInOrder(Tail(roster), Append(seen, Head(roster).fantasy_team))

\* a grouping that hands every team the whole roster
TeamPlayersWholeRoster(roster, fantasy_team) == roster

TeamPlayers(roster, fantasy_team) ==
    SelectSeq(roster, LAMBDA p : p.fantasy_team = fantasy_team)

NotFoundError(player, fantasy_team, wk, sn) ==
    [kind |-> "not_found", player_name |-> player.player_name,
     player_position |-> player.player_position,
     player_team |-> player.player_team, fantasy_team |-> fantasy_team,
     season |-> sn, week |-> wk]

\* an inner loop that skips a player without a score instead of raising
RECURSIVE ScorePlayersSkipsMissing(_, _, _, _, _, _)
ScorePlayersSkipsMissing(team_players, d, acc, fantasy_team, wk, sn) ==
    IF team_players = <<>> THEN [error |-> NoError, scores |-> acc]
    ELSE LET player == Head(team_players)
             i == LookupIndex(d, player)
         IN ScorePlayersSkipsMissing(
                Tail(team_players), d,
                IF i = 0 THEN acc ELSE Append(acc, d[i].score),
                fantasy_team, wk, sn)

\* the inner loop over team_players: [error, scores]
RECURSIVE ScorePlayers(_, _, _, _, _, _)
ScorePlayers(team_players, d, acc, fantasy_team, wk, sn) ==
    IF team_players = <<>> THEN [error |-> NoError, scores |-> acc]
    ELSE LET player == Head(team_players)
             i == LookupIndex(d, player)
         IN IF i = 0
            THEN [error |-> NotFoundError(player, fantasy_team, wk, sn),
                  scores |-> acc]
            ELSE ScorePlayers(Tail(team_players), d, Append(acc, d[i].score),
                              fantasy_team, wk, sn)

\* a loop whose total_points is not reset between teams
RECURSIVE ScoreTeamsRunningTotal(_, _, _, _, _, _)
ScoreTeamsRunningTotal(teams, roster, d, acc, wk, sn) ==
    IF teams = <<>> THEN [error |-> NoError, team_scores |-> acc]
    ELSE LET fantasy_team == Head(teams)
             r == ScorePlayers(TeamPlayers(roster, fantasy_team), d, <<>>,
                               fantasy_team, wk, sn)
             carried == IF acc = <<>> THEN 0 ELSE acc[Len(acc)].total_points
             total_points == Round2(carried + SumPoints(r.scores))
         IN IF r.error # NoError
            THEN [error |-> r.error, team_scores |-> <<>>]
            ELSE IF ~TeamScoreValid(total_points, r.scores)
            THEN [error |-> [kind |-> "total_mismatch"], team_scores |-> <<>>]
            ELSE ScoreTeamsRunningTotal(Tail(teams), roster, d,
                            Append(acc, TeamScore(fantasy_team, wk, sn,
                                                  total_points, r.scores)),
                            wk, sn)

\* the loop over teams_dict.items(): [error, team_scores]
RECURSIVE ScoreTeams(_, _, _, _, _, _)
ScoreTeams(teams, roster, d, acc, wk, sn) ==
    IF teams = <<>> THEN [error |-> NoError, team_scores |-> acc]
    ELSE LET fantasy_team == Head(teams)
             r == ScorePlayers(TeamPlayers(roster, fantasy_team), d, <<>>,
                               fantasy_team, wk, sn)
             total_points == Round2(SumPoints(r.scores))
         IN IF r.error # NoError
            THEN [error |-> r.error, team_scores |-> <<>>]
            ELSE IF ~TeamScoreValid(total_points, r.scores)
            THEN [error |-> [kind |-> "total_mismatch"], team_scores |-> <<>>]
            ELSE ScoreTeams(Tail(teams), roster, d,
                            Append(acc, TeamScore(fantasy_team, wk, sn,
                                                  total_points, r.scores)),
                            wk, sn)

\* an insertion that puts a team before the teams of equal total
RECURSIVE InsertByTotalBeforeTies(_, _)
InsertByTotalBeforeTies(sorted, ts) ==
    IF sorted = <<>> THEN <<ts>>
    ELSE IF Head(sorted).total_points > ts.total_points
         THEN <<Head(sorted)>> \o InsertByTotalBeforeTies(Tail(sorted), ts)
         ELSE <<ts>> \o sorted

\* list.sort(key=total_points, reverse=True): stable, descending
RECURSIVE InsertByTotal(_, _)
InsertByTotal(sorted, ts) ==
    IF sorted = <<>> THEN <<ts>>
    ELSE IF Head(sorted).total_points >= ts.total_points
         THEN <<Head(sorted)>> \o InsertByTotal(Tail(sorted), ts)
         ELSE <<ts>> \o sorted

RECURSIVE SortByTotalDesc(_, _)
SortByTotalDesc(list, acc) ==
    IF list = <<>> THEN acc
    ELSE SortByTotalDesc(Tail(list), InsertByTotal(acc, Head(list)))

\* the whole function: [error, team_scores]
calculate_week_score(roster, rows, wk, sn) ==
    LET week_stats == WeekStats(rows, wk, sn)
        built == BuildScoreLookup(week_stats, <<>>, wk, sn)
        scored == ScoreTeams(TeamsInOrder(roster, <<>>), roster, built.lookup,
                             <<>>, wk, sn)
    IN IF week_stats = <<>>
       THEN [error |-> [kind |-> "no_stats"], team_scores |-> <<>>]
       ELSE IF ~built.ok
       THEN [error |-> [kind |-> "negative_points"], team_scores |-> <<>>]
       ELSE IF scored.error # NoError
       THEN [error |-> scored.error, team_scores |-> <<>>]
       ELSE [error |-> NoError,
             team_scores |-> SortByTotalDesc(scored.team_scores, <<>>)]

----------------------------------------------------------------------------
(* Lineup optimizer: select_optimal_lineup *)

\* slotOrder
SlotOrder == << <<"Q","B">>, <<"R","B">>, <<"W","R">>, <<"T","E">> >>

\* slots = {QB: 1, RB: 1, WR: 2, TE: 1}
SlotCount(position) ==
    IF position = <<"W","R">> THEN 2
    ELSE IF position \in {<<"Q","B">>, <<"R","B">>, <<"T","E">>} THEN 1
    ELSE 0

\* an insertion that puts a player before the players of equal points
RECURSIVE InsertByPointsBeforeTies(_, _)
InsertByPointsBeforeTies(sorted, ps) ==
    IF sorted = <<>> THEN <<ps>>
    ELSE IF Head(sorted).fantasy_points > ps.fantasy_points
         THEN <<Head(sorted)>> \o InsertByPointsBeforeTies(Tail(sorted), ps)
         ELSE <<ps>> \o sorted

\* insertion into a list sorted by points descending, behind the players of
\* equal points (stable)
RECURSIVE InsertByPoints(_, _)
InsertByPoints(sorted, ps) ==
    IF sorted = <<>> THEN <<ps>>
    ELSE IF Head(sorted).fantasy_points >= ps.fantasy_points
         THEN <<Head(sorted)>> \o InsertByPoints(Tail(sorted), ps)
         ELSE <<ps>> \o sorted

\* a group left in input order
SortByPointsDescUnsorted(group, acc) == acc \o group

\* sort a position group by points descending, ties in input order
RECURSIVE SortByPointsDesc(_, _)
SortByPointsDesc(group, acc) ==
    IF group = <<>> THEN acc
    ELSE SortByPointsDesc(Tail(group), InsertByPoints(acc, Head(group)))

\* the first count players of a sorted group, fewer if the group is smaller
TakeFirst(sorted, count) ==
    SubSeq(sorted, 1, IF count < Len(sorted) THEN count ELSE Len(sorted))

PositionGroup(scored, position) ==
    SelectSeq(scored, LAMBDA ps : ps.player_position = position)

RECURSIVE SelectInSlotOrder(_, _)
SelectInSlotOrder(scored, order) ==
    IF order = <<>> THEN <<>>
    ELSE TakeFirst(SortByPointsDesc(PositionGroup(scored, Head(order)), <<>>),
                   SlotCount(Head(order)))
         \o SelectInSlotOrder(scored, Tail(order))

select_optimal_lineup(scored) == SelectInSlotOrder(scored, SlotOrder)

----------------------------------------------------------------------------
(* Input pools *)

MaxCandidates == 3

\* all sequences over S of length at most n
SeqsUpTo(S, n) == UNION { [1..k -> S] : k \in 0..n }

\* the sequences over S of length at most n that hold no element twice
DistinctSeqsUpTo(S, n) ==
    { s \in SeqsUpTo(S, n) : \A i, j \in 1..Len(s) : s[i] = s[j] => i = j }

QB == <<"Q","B">>
RB == <<"R","B">>
WR == <<"W","R">>
TE == <<"T","E">>
KC == <<"K","C">>
GB == <<"G","B">>

AlMo == <<"A","l"," ","M","o">>
BoDi == <<"B","o"," ","D","i">>

CandidatePool ==
    { [player_name |-> AlMo, position |-> QB, team |-> KC],
      [player_name |-> <<"A","l"," ","M","o"," ","I","I">>,
       position |-> <<"q","b"," ">>, team |-> <<" ","k","c">>],
      [player_name |-> <<"A",".","M","o">>, position |-> QB, team |-> GB],
      [player_name |-> AlMo, position |-> RB, team |-> KC],
      [player_name |-> BoDi, position |-> QB, team |-> KC] }

\* a frame that has neither a recent_team nor a team column: its rows carry
\* no team code (row.get of the column gives "")
WithoutTeamColumn(df) ==
    IF df = <<>> THEN <<>>
    ELSE [i \in 1..Len(df) |-> [df[i] EXCEPT !.team = <<>>]]

CsvPlayerPool ==
    [ player_name : { AlMo, <<"a","l"," ","m","o"," ","j","r",".">> },
      position    : { <<"q","b">>, WR },
      team        : { KC, <<"g","b">> } ]

MaxPlayers == 2

MaxRecords == 3

StatsRow(player_name, team, position, wk, stats) ==
    [season |-> 2023, week |-> wk, player_name |-> player_name,
     team |-> team, position |-> position, stats |-> stats]

\* week rows: two rows with the same name, team and position and different
\* stats; a row spelled in lower case for another team; a running back; a
\* quarterback whose interceptions outweigh his yards; a row of another week
RecordPool ==
    { StatsRow(AlMo, KC, QB, 5,
               [passing_yards |-> 300, passing_tds |-> 2, interceptions |-> 1,
                rushing_yards |-> 20]),
      StatsRow(AlMo, KC, QB, 5,
               [passing_yards |-> 250, passing_tds |-> 1, receptions |-> 3]),
      StatsRow(<<"a","l"," ","m","o">>, <<" ","g","b">>, <<"q","b">>, 5,
               [passing_yards |-> 25]),
      StatsRow(BoDi, GB, RB, 5,
               [rushing_yards |-> 100, rushing_tds |-> 1,
                receiving_yards |-> 50, receptions |-> 5, passing_yards |-> 10]),
      StatsRow(<<"C","y"," ","E","k">>, KC, QB, 5,
               [passing_yards |-> 25, interceptions |-> 3]),
      StatsRow(BoDi, GB, RB, 6, [rushing_yards |-> 30]) }

Player(player_name, player_team, player_position, fantasy_team) ==
    [player_name |-> player_name, player_team |-> player_team,
     player_position |-> player_position, fantasy_team |-> fantasy_team]

PlayerPool ==
    { Player(AlMo, KC, QB, "Team A"),
      Player(<<"A","."," ","M","o">>, KC, QB, "Team B"),
      Player(<<"A","L"," ","M","O">>, <<"g","b">>, <<"q","b">>, "Team A"),
      Player(BoDi, KC, RB, "Team A"),
      Player(BoDi, GB, RB, "Team B") }

----------------------------------------------------------------------------
(* calculate_week_score applied to one roster and one stats frame *)

Init ==
    /\ pc = "start"
    /\ players \in DistinctSeqsUpTo(PlayerPool, MaxPlayers)
    /\ records \in DistinctSeqsUpTo(RecordPool, MaxRecords)
    /\ week = 5
    /\ season = 2023
    /\ team_scores = <<>>
    /\ error = NoError
    /\ csv_player = <<>>
    /\ player_stats_df = <<>>
    /\ has_team_column = TRUE
    /\ strict_team_match = FALSE
    /\ match = 0
    /\ player_scores = <<>>
    /\ lineup = <<>>
    /\ call_args = <<>>
    /\ returned = <<>>
    /\ cache = <<>>
    /\ fetch_log = <<>>

CalculateWeekScore ==
    /\ pc = "start"
    /\ LET result == calculate_week_score(players, records, week, season)
       IN /\ team_scores' = result.team_scores
          /\ error' = result.error
    /\ pc' = "done"
    /\ UNCHANGED <<players, records, week, season, csv_player, player_stats_df,
                   has_team_column, strict_team_match, match, player_scores,
                   lineup, call_args,
                   returned,
                   cache, fetch_log>>

Next == CalculateWeekScore

Spec == Init /\ [][Next]_vars

----------------------------------------------------------------------------
(* Properties of calculate_week_score *)

Min(a, b) == IF a < b THEN a ELSE b

Done == pc = "done"

week_stats == WeekStats(records, week, season)

SlotPositions == {QB, RB, WR, TE}

SlotLimit(position) == IF position = WR THEN 2 ELSE 1

CountAt(scores, position) ==
    Cardinality({ i \in 1..Len(scores) : scores[i].player_position = position })

RosterCountAt(fantasy_team, position) ==
    Cardinality({ i \in 1..Len(players) :
                    /\ players[i].fantasy_team = fantasy_team
                    /\ UpperStrip(players[i].player_position) = position })

\* C1: every returned TeamScore holds, for each slotted position, exactly
\* min(slot limit, number of the team's roster players at that position)
\* players, and no player of a position outside the slots.
C1_LineupRespectsSlots ==
    (Done /\ error = NoError) =>
        \A k \in 1..Len(team_scores) :
            LET ts == team_scores[k]
            IN /\ \A position \in SlotPositions :
                    CountAt(ts.player_scores, position)
                      = Min(SlotLimit(position),
                            RosterCountAt(ts.fantasy_team, position))
               /\ \A i \in 1..Len(ts.player_scores) :
                    ts.player_scores[i].player_position \in SlotPositions

\* a roster entry that no row of the requested week can score: no row has its
\* lower-cased trimmed name together with its upper-cased trimmed position
Unresolved(player) ==
    ~\E i \in 1..Len(week_stats) :
        /\ calc_normalize_name(week_stats[i].player_name)
             = calc_normalize_name(player.player_name)
        /\ UpperStrip(week_stats[i].position)
             = UpperStrip(player.player_position)

SomeUnresolved == \E i \in 1..Len(players) : Unresolved(players[i])

IdentifiesUnresolvedPlayer ==
    \E i \in 1..Len(players) :
        /\ Unresolved(players[i])
        /\ error = NotFoundError(players[i], players[i].fantasy_team, week, season)

SomeRowNegative ==
    \E i \in 1..Len(week_stats) : RowPoints(week_stats[i]) < 0

ResolverRow(player) ==
    find_player_match(player.player_name, player.player_position,
                      player.player_team, week_stats, TRUE, FALSE)

\* C3: every roster entry is scored from the row that find_player_match
\* returns for it, and the run reports a player as not found exactly when
\* find_player_match returns None for that player.
C3_PipelineUsesResolver ==
    Done =>
        /\ error = NoError =>
            \A k \in 1..Len(team_scores) :
                LET ts == team_scores[k]
                    team_players == TeamPlayers(players, ts.fantasy_team)
                IN \A j \in 1..Len(team_players) :
                    /\ ResolverRow(team_players[j]) # 0
                    /\ ts.player_scores[j]
                         = RowScore(week_stats[ResolverRow(team_players[j])],
                                    week, season)
        /\ error.kind = "not_found" =>
            \E i \in 1..Len(players) :
                /\ ResolverRow(players[i]) = 0
                /\ error = NotFoundError(players[i], players[i].fantasy_team,
                                         week, season)

\* the first row of the week, in frame order, that matches a roster entry:
\* same name, team and position if there is one, else same name and position
FirstMatchingRow(player) ==
    LET key == LookupKey(player.player_name, player.player_team,
                         player.player_position)
        exact == { i \in 1..Len(week_stats) :
                     LookupKey(week_stats[i].player_name, week_stats[i].team,
                               week_stats[i].position) = key }
        loose == { i \in 1..Len(week_stats) :
                     /\ calc_normalize_name(week_stats[i].player_name) = key[1]
                     /\ UpperStrip(week_stats[i].position) = key[3] }
    IN IF exact # {} THEN CHOOSE i \in exact : \A j \in exact : i <= j
       ELSE IF loose # {} THEN CHOOSE i \in loose : \A j \in loose : i <= j
       ELSE 0

\* C8: when several rows of the week match a roster entry, the entry is
\* scored from the first of them in frame order.
C8_FirstRecordWins ==
    (Done /\ error = NoError) =>
        \A k \in 1..Len(team_scores) :
            LET ts == team_scores[k]
                team_players == TeamPlayers(players, ts.fantasy_team)
            IN \A j \in 1..Len(team_players) :
                /\ FirstMatchingRow(team_players[j]) # 0
                /\ ts.player_scores[j]
                     = RowScore(week_stats[FirstMatchingRow(team_players[j])],
                                week, season)

----------------------------------------------------------------------------
(* find_player_match applied to one CSV player and one stats frame *)

InitMatch ==
    /\ pc = "start"
    /\ csv_player \in CsvPlayerPool
    /\ has_team_column \in BOOLEAN
    /\ \E df \in SeqsUpTo(CandidatePool, MaxCandidates) :
        player_stats_df = IF has_team_column THEN df ELSE WithoutTeamColumn(df)
    /\ strict_team_match \in BOOLEAN
    /\ match = 0
    /\ players = <<>>
    /\ records = <<>>
    /\ week = 0
    /\ season = 0
    /\ team_scores = <<>>
    /\ error = NoError
    /\ player_scores = <<>>
    /\ lineup = <<>>
    /\ call_args = <<>>
    /\ returned = <<>>
    /\ cache = <<>>
    /\ fetch_log = <<>>

FindPlayerMatch ==
    /\ pc = "start"
    /\ match' = find_player_match(csv_player.player_name, csv_player.position,
                                  csv_player.team, player_stats_df,
                                  has_team_column, strict_team_match)
    /\ pc' = "done"
    /\ UNCHANGED <<players, records, week, season, team_scores, error,
                   csv_player, player_stats_df, has_team_column,
                   strict_team_match, player_scores, lineup, call_args,
                   returned,
                   cache, fetch_log>>

NextMatch == FindPlayerMatch

SpecMatch == InitMatch /\ [][NextMatch]_vars

----------------------------------------------------------------------------
(* Properties of find_player_match *)

PositionOk(i) ==
    UpperStrip(player_stats_df[i].position) = UpperStrip(csv_player.position)

TeamOk(i) ==
    UpperStrip(player_stats_df[i].team) = UpperStrip(csv_player.team)

NameOk(i) ==
    fuzzy_match_name(csv_player.player_name, player_stats_df[i].player_name)

Rows == 1..Len(player_stats_df)

SameTeamHit(i) == PositionOk(i) /\ TeamOk(i) /\ NameOk(i)

AnyTeamHit(i) == PositionOk(i) /\ NameOk(i)

\* C4: among several fuzzy-matching candidates of the entry's position and
\* team the first in frame order is returned; the team-ignoring scan (the
\* fallback, or the only scan of a frame without a team column) likewise
\* returns the first fuzzy-matching candidate of the entry's position.
C4_FirstCandidateWins ==
    Done =>
        /\ has_team_column =>
            \A i \in Rows : SameTeamHit(i) =>
                (match # 0 /\ match <= i /\ SameTeamHit(match))
        /\ (~has_team_column
              \/ (~strict_team_match /\ ~\E i \in Rows : SameTeamHit(i))) =>
            \A i \in Rows : AnyTeamHit(i) =>
                (match # 0 /\ match <= i /\ AnyTeamHit(match))

\* witness for C4: two same-team hits behind a row that is not a hit, the
\* earlier of the two returned
W4_SeveralSameTeamHits ==
    /\ Done
    /\ has_team_column
    /\ match > 1
    /\ \E j \in Rows : j > match /\ SameTeamHit(j)
    /\ SameTeamHit(match)

\* C5: a fuzzy-matching candidate of the entry's own team is returned
\* whenever one exists, even behind an earlier fuzzy-matching candidate of
\* another team; when none exists and strict_team_match is False the first
\* fuzzy-matching candidate of the entry's position is returned, not None.
C5_OwnTeamPreferred ==
    Done =>
        /\ (\E i \in Rows : SameTeamHit(i)) => (match # 0 /\ TeamOk(match))
        /\ ((~\E i \in Rows : SameTeamHit(i))
              /\ ~strict_team_match
              /\ (\E i \in Rows : AnyTeamHit(i))) =>
            /\ match # 0
            /\ AnyTeamHit(match)
            /\ \A j \in 1..(match - 1) : ~AnyTeamHit(j)

\* witness for C5: the returned same-team candidate stands behind a
\* fuzzy-matching candidate of another team
W5_OtherTeamHitEarlier ==
    /\ Done
    /\ has_team_column
    /\ match # 0
    /\ TeamOk(match)
    /\ \E j \in 1..(match - 1) : AnyTeamHit(j) /\ ~TeamOk(j)

\* C6: None is returned whenever no candidate has the entry's position,
\* whatever the names and strict_team_match, and a returned candidate has
\* the entry's position (both upper-cased and trimmed).
C6_PositionRequired ==
    Done =>
        /\ (~\E i \in Rows : PositionOk(i)) => match = 0
        /\ match # 0 => PositionOk(match)

\* witness for C6: None although a candidate of another position has the
\* same normalized name as the entry
W6_SameNameOtherPosition ==
    /\ Done
    /\ match = 0
    /\ ~\E i \in Rows : PositionOk(i)
    /\ \E i \in Rows :
        normalize_name(player_stats_df[i].player_name)
          = normalize_name(csv_player.player_name)

----------------------------------------------------------------------------
(* select_optimal_lineup applied to one list of scored players *)

MaxScored == 4

LineupPositions == {QB, RB, WR, TE, <<"K">>}

LineupPoints == {10000, 20000}

\* the i-th scored player; the name records the place in the input
ScoredPlayer(i, position, fantasy_points) ==
    PlayerScore(<<"P", <<"1","2","3","4","5","6","7","8","9">>[i]>>, KC,
                position, 5, 2023, fantasy_points)

InitLineup ==
    /\ pc = "start"
    /\ \E n \in 0..MaxScored :
        \E f \in [1..n -> LineupPositions \X LineupPoints] :
            player_scores =
                IF n = 0 THEN <<>>
                ELSE [i \in 1..n |-> ScoredPlayer(i, f[i][1], f[i][2])]
    /\ lineup = <<>>
    /\ call_args = <<>>
    /\ returned = <<>>
    /\ cache = <<>>
    /\ fetch_log = <<>>
    /\ players = <<>>
    /\ records = <<>>
    /\ week = 0
    /\ season = 0
    /\ team_scores = <<>>
    /\ error = NoError
    /\ csv_player = <<>>
    /\ player_stats_df = <<>>
    /\ has_team_column = TRUE
    /\ strict_team_match = FALSE
    /\ match = 0

SelectOptimalLineup ==
    /\ pc = "start"
    /\ lineup' = select_optimal_lineup(player_scores)
    /\ pc' = "done"
    /\ UNCHANGED <<players, records, week, season, team_scores, error,
                   csv_player, player_stats_df, has_team_column,
                   strict_team_match, match, player_scores, call_args,
                   returned,
                   cache, fetch_log>>

NextLineup == SelectOptimalLineup

SpecLineup == InitLineup /\ [][NextLineup]_vars

----------------------------------------------------------------------------
(* Properties of select_optimal_lineup *)

Scored == 1..Len(player_scores)

\* the place in the input of the k-th player of the lineup (names are
\* distinct in the inputs drawn above), 0 if it is not an input player
InputIndex(k) ==
    IF \E i \in Scored : player_scores[i] = lineup[k]
    THEN CHOOSE i \in Scored : player_scores[i] = lineup[k]
    ELSE 0

Selected == { InputIndex(k) : k \in 1..Len(lineup) }

PointsOf(S) == SumPoints(SelectSeq(player_scores, LAMBDA ps : \E i \in S : player_scores[i] = ps))

\* a selection of input players that respects the per-position slot counts
RespectsSlots(S) ==
    /\ \A i \in S : player_scores[i].player_position \in SlotPositions
    /\ \A position \in SlotPositions :
        Cardinality({ i \in S : player_scores[i].player_position = position })
          <= SlotLimit(position)

\* C9: the lineup is a selection of distinct input players that fills each
\* slotted position up to its count; no unselected player of a slotted
\* position has strictly more points than a selected player of that
\* position; and the lineup total is the maximum over all selections that
\* respect the slot counts.
C9_LineupIsOptimal ==
    Done =>
        /\ 0 \notin Selected
        /\ Cardinality(Selected) = Len(lineup)
        /\ \A position \in SlotPositions :
            Cardinality({ i \in Selected :
                            player_scores[i].player_position = position })
              = Min(SlotLimit(position),
                    Cardinality({ i \in Scored :
                                    player_scores[i].player_position = position }))
        /\ \A i \in Selected : \A u \in Scored \ Selected :
            player_scores[u].player_position = player_scores[i].player_position
              => player_scores[u].fantasy_points <= player_scores[i].fantasy_points
        /\ \A S \in SUBSET Scored :
            RespectsSlots(S) => PointsOf(S) <= SumPoints(lineup)

\* witness for C9: three players of a two-slot position, the one left out
\* with fewer points than a selected one that comes later in the input
W9_LowerScorerLeftOut ==
    /\ Done
    /\ \E u \in Scored \ Selected : \E i \in Selected :
        /\ u < i
        /\ player_scores[u].player_position = WR
        /\ player_scores[i].player_position = WR
        /\ player_scores[u].fantasy_points < player_scores[i].fantasy_points

\* the place of a position in the slot order
SlotIndex(position) == CHOOSE s \in 1..Len(SlotOrder) : SlotOrder[s] = position

\* C10: the lineup is ordered by slot order QB, RB, WR, TE and, within a
\* position, by descending points; players of one position with equal
\* points keep their input order, and of tied players of one position the
\* earlier in the input are the selected ones.
C10_LineupOrder ==
    Done =>
        /\ \A k \in 1..Len(lineup) : lineup[k].player_position \in SlotPositions
        /\ \A k \in 1..Len(lineup) : \A l \in 1..Len(lineup) :
            k < l =>
                /\ SlotIndex(lineup[k].player_position)
                     <= SlotIndex(lineup[l].player_position)
                /\ lineup[k].player_position = lineup[l].player_position =>
                    /\ lineup[k].fantasy_points >= lineup[l].fantasy_points
                    /\ lineup[k].fantasy_points = lineup[l].fantasy_points
                         => InputIndex(k) < InputIndex(l)
        /\ \A i \in Selected : \A u \in Scored \ Selected :
            (/\ player_scores[u].player_position = player_scores[i].player_position
             /\ player_scores[u].fantasy_points = player_scores[i].fantasy_points)
              => i < u

\* witness for C10: a lineup over two positions in which one of two tied
\* players of a position is selected and the other is not
W10_TieBrokenByInputOrder ==
    /\ Done
    /\ \E k \in 1..Len(lineup) : \E l \in 1..Len(lineup) :
        lineup[k].player_position # lineup[l].player_position
    /\ \E i \in Selected : \E u \in Scored \ Selected :
        /\ player_scores[u].player_position = player_scores[i].player_position
        /\ player_scores[u].fantasy_points = player_scores[i].fantasy_points

-----------------------------------------------------------------------------
(* Direct construction of models.PlayerScore and models.TeamScore *)

MaxLineup == 2

\* the exception a __post_init__ raises; no object exists then
ValueError == [raised |-> "ValueError"]

\* fantasy_points given to PlayerScore(...), in thousandths of a point
FantasyPointsPool ==
    {0 - 25500, 0 - 5000, 0 - 10, 0 - 1, 0, 1, 5, 10, 11, 1000, 15500, 20000,
     25500}

\* fantasy_points of the PlayerScore objects handed to TeamScore(...)
LineupPointsPool == {0, 5, 10, 15500}

\* total_points minus the true sum, in thousandths of a point
Deviations == {0 - 14500, 0 - 11, 0 - 10, 0 - 5, 0, 5, 10, 11, 14500}

PlayerScoreArgs ==
    { [cls |-> "PlayerScore", player_name |-> n, player_team |-> KC,
       player_position |-> p, fantasy_points |-> f] :
      n \in {AlMo, BoDi}, p \in {QB, RB}, f \in FantasyPointsPool }

TeamScoreArgs ==
    { [cls |-> "TeamScore", fantasy_team |-> "Team A",
       total_points |-> SumPoints(s) + d, player_scores |-> s] :
      s \in SeqsUpTo({ PlayerScore(AlMo, KC, QB, 5, 2023, f) :
                       f \in LineupPointsPool }, MaxLineup),
      d \in Deviations }

InitModels ==
    /\ pc = "start"
    /\ players = <<>>
    /\ records = <<>>
    /\ week = 5
    /\ season = 2023
    /\ team_scores = <<>>
    /\ error = NoError
    /\ csv_player = <<>>
    /\ player_stats_df = <<>>
    /\ has_team_column = TRUE
    /\ strict_team_match = FALSE
    /\ match = 0
    /\ player_scores = <<>>
    /\ lineup = <<>>
    /\ call_args \in PlayerScoreArgs \cup TeamScoreArgs
    /\ returned = <<>>
    /\ cache = <<>>
    /\ fetch_log = <<>>

\* PlayerScore(...): the dataclass __init__ followed by __post_init__
ConstructPlayerScore ==
    /\ pc = "start"
    /\ call_args.cls = "PlayerScore"
    /\ pc' = "done"
    /\ returned' = IF PlayerScoreValid(call_args.fantasy_points)
                   THEN PlayerScore(call_args.player_name,
                                    call_args.player_team,
                                    call_args.player_position, week, season,
                                    call_args.fantasy_points)
                   ELSE ValueError
    /\ UNCHANGED <<players, records, week, season, team_scores, error,
                   csv_player, player_stats_df, has_team_column,
                   strict_team_match, match, player_scores, lineup,
                   call_args,
                   cache, fetch_log>>

\* TeamScore(...): the dataclass __init__ followed by __post_init__
ConstructTeamScore ==
    /\ pc = "start"
    /\ call_args.cls = "TeamScore"
    /\ pc' = "done"
    /\ returned' = IF TeamScoreValid(call_args.total_points,
                                     call_args.player_scores)
                   THEN TeamScore(call_args.fantasy_team, week, season,
                                  call_args.total_points,
                                  call_args.player_scores)
                   ELSE ValueError
    /\ UNCHANGED <<players, records, week, season, team_scores, error,
                   csv_player, player_stats_df, has_team_column,
                   strict_team_match, match, player_scores, lineup,
                   call_args,
                   cache, fetch_log>>

NextModels == ConstructPlayerScore \/ ConstructTeamScore

SpecModels == InitModels /\ [][NextModels]_vars

\* the sum of the lineup's fantasy_points, added left to right
RECURSIVE LineupSum(_, _)
LineupSum(scores, k) ==
    IF k = 0 THEN 0 ELSE LineupSum(scores, k - 1) + scores[k].fantasy_points

TeamScoreCall == Done /\ call_args.cls = "TeamScore"

TotalDeviation ==
    Abs(call_args.total_points
        - LineupSum(call_args.player_scores, Len(call_args.player_scores)))

-----------------------------------------------------------------------------
(* Claims about the totals and the order of calculate_week_score, under Spec *)

\* t is x rounded to two decimals (half to even), both in thousandths
IsRoundedTo2(t, x) ==
    /\ t % 10 = 0
    /\ Abs(t - x) <= 5
    /\ (Abs(t - x) = 5 => (t \div 10) % 2 = 0)

\* C12: every TeamScore returned by calculate_week_score has total_points
\* equal to the sum of the fantasy_points of its own player_scores rounded to
\* two decimals, every one of those fantasy_points is itself a two-decimal
\* value, and the pipeline never ends in the TeamScore construction error.
C12_TotalIsRoundedLineupSum ==
    Done =>
        /\ error.kind # "total_mismatch"
        /\ \A k \in 1..Len(team_scores) :
            LET ts == team_scores[k]
            IN /\ IsRoundedTo2(ts.total_points,
                               LineupSum(ts.player_scores,
                                         Len(ts.player_scores)))
               /\ \A i \in 1..Len(ts.player_scores) :
                    IsRoundedTo2(ts.player_scores[i].fantasy_points,
                                 ts.player_scores[i].fantasy_points)

\* witness for C12: a returned team whose lineup holds two players with
\* different positive points
W12_TwoScorersSummed ==
    /\ Done
    /\ error = NoError
    /\ \E k \in 1..Len(team_scores) :
        LET ps == team_scores[k].player_scores
        IN /\ Len(ps) = 2
           /\ ps[1].fantasy_points > 0
           /\ ps[2].fantasy_points > 0
           /\ ps[1].fantasy_points # ps[2].fantasy_points

-----------------------------------------------------------------------------
(* Claim about PlayerScore construction, under SpecModels *)

PlayerScoreCall == Done /\ call_args.cls = "PlayerScore"

\* C13: constructing a PlayerScore raises ValueError exactly when
\* fantasy_points is negative; zero and every positive value give a
\* PlayerScore carrying that value.
C13_NegativePointsRejected ==
    PlayerScoreCall =>
        IF call_args.fantasy_points < 0
        THEN returned = ValueError
        ELSE /\ returned # ValueError
             /\ returned.fantasy_points = call_args.fantasy_points
             /\ returned.player_name = call_args.player_name

\* witness for C13: zero points were accepted
W13_ZeroAccepted ==
    /\ PlayerScoreCall
    /\ call_args.fantasy_points = 0
    /\ returned # ValueError

\* the place in the roster where a fantasy team is first encountered
FirstEncountered(fantasy_team) ==
    CHOOSE i \in 1..Len(players) :
        /\ players[i].fantasy_team = fantasy_team
        /\ \A j \in 1..(i - 1) : players[j].fantasy_team # fantasy_team

\* C14: the list returned by calculate_week_score is sorted by total_points
\* descending, and teams of equal total stand in the order in which their
\* fantasy team was first encountered in the roster.
C14_SortedByTotalDescending ==
    (Done /\ error = NoError) =>
        \A k \in 1..Len(team_scores) : \A l \in 1..Len(team_scores) :
            k < l =>
                /\ team_scores[k].total_points >= team_scores[l].total_points
                /\ (team_scores[k].total_points = team_scores[l].total_points
                    => FirstEncountered(team_scores[k].fantasy_team)
                       < FirstEncountered(team_scores[l].fantasy_team))

\* witness for C14: two teams tie and the one met first in the roster, which
\* is not the alphabetically first, leads the returned list
W14_TieKeepsRosterOrder ==
    /\ Done
    /\ error = NoError
    /\ Len(team_scores) = 2
    /\ team_scores[1].total_points = team_scores[2].total_points
    /\ team_scores[1].fantasy_team = "Team B"

-----------------------------------------------------------------------------
(* Direct calls of calculator.calculate_player_fantasy_points *)

MaxStatFields == 3

StatFields ==
    {"passing_yards", "passing_tds", "interceptions", "rushing_yards",
     "rushing_tds", "receiving_yards", "receiving_tds", "receptions"}

\* integer stat values, a loss of yards among them
StatValues == {0 - 3, 0, 2, 26}

\* rows holding at most MaxStatFields of the stat fields
StatRows ==
    { [stats |-> st] :
      st \in UNION { [D -> StatValues] :
                     D \in { F \in SUBSET StatFields :
                             Cardinality(F) <= MaxStatFields } } }

\* positions as the callers may write them
PositionSpellings ==
    {QB, <<"q","b">>, <<"Q","b">>, <<" ","Q","B">>, RB, WR, TE, <<"K">>}

InitPoints ==
    /\ pc = "start"
    /\ players = <<>>
    /\ records = <<>>
    /\ week = 5
    /\ season = 2023
    /\ team_scores = <<>>
    /\ error = NoError
    /\ csv_player = <<>>
    /\ player_stats_df = <<>>
    /\ has_team_column = TRUE
    /\ strict_team_match = FALSE
    /\ match = 0
    /\ player_scores = <<>>
    /\ lineup = <<>>
    /\ call_args \in { [player_row |-> r, position |-> p] :
                       r \in StatRows, p \in PositionSpellings }
    /\ returned = <<>>
    /\ cache = <<>>
    /\ fetch_log = <<>>

CalculatePlayerFantasyPoints ==
    /\ pc = "start"
    /\ pc' = "done"
    /\ returned' = [points |->
                      calculate_player_fantasy_points(call_args.player_row,
                                                      call_args.position)]
    /\ UNCHANGED <<players, records, week, season, team_scores, error,
                   csv_player, player_stats_df, has_team_column,
                   strict_team_match, match, player_scores, lineup,
                   call_args,
                   cache, fetch_log>>

NextPoints == CalculatePlayerFantasyPoints

SpecPoints == InitPoints /\ [][NextPoints]_vars

\* the value the record gives for a stat, 0 when the field is missing
Given(field) ==
    IF field \in DOMAIN call_args.player_row.stats
    THEN call_args.player_row.stats[field]
    ELSE 0

\* C15: for integer stats, with a missing field counting as 0, a position
\* that upper-cases to QB scores passing_yards/25 + 4*passing_tds
\* - 2*interceptions + rushing_yards/10 + 6*rushing_tds, and every other
\* position scores rushing_yards/10 + 6*rushing_tds + receiving_yards/10
\* + 6*receiving_tds + 0.5*receptions; the call always returns a number.
\* Both sides are multiplied by 50 to clear the denominators (points are in
\* thousandths).
C15_ScoringFormulas ==
    Done =>
        /\ DOMAIN returned = {"points"}
        /\ IF Upper(call_args.position) = QB
           THEN 50 * returned.points
                = 1000 * (  2 * Given("passing_yards")
                          + 200 * Given("passing_tds")
                          - 100 * Given("interceptions")
                          + 5 * Given("rushing_yards")
                          + 300 * Given("rushing_tds"))
           ELSE 50 * returned.points
                = 1000 * (  5 * Given("rushing_yards")
                          + 300 * Given("rushing_tds")
                          + 5 * Given("receiving_yards")
                          + 300 * Given("receiving_tds")
                          + 25 * Given("receptions"))

\* witness for C15: a quarterback written in lower case, with passing yards
\* and no interceptions field, was scored on his passing
W15_LowerCaseQuarterback ==
    /\ Done
    /\ call_args.position = <<"q","b">>
    /\ "interceptions" \notin DOMAIN call_args.player_row.stats
    /\ Given("passing_yards") = 26
    /\ Given("receptions") = 2
    /\ returned.points = 1040

-----------------------------------------------------------------------------
(* Direct calls of player_matcher.normalize_name *)

MaxNameLen == 5

\* letters for which str.isupper() holds and which str.lower() leaves as
\* they are, having no lower-case form; "U+2102" stands for the one character
\* DOUBLE-STRUCK CAPITAL C
UncasedCapitals == {"U+2102"}

\* a letter, the letter that is also a suffix, a blank, a period and a
\* capital without a lower-case form
NameChars == {"a", "V", " ", "."} \cup UncasedCapitals

\* the suffixes of the regex in several letter cases
SuffixSpellings ==
    { <<"J","r">>, <<"J","r",".">>, <<"S","r">>, <<"S","r",".">>,
      <<"I","I">>, <<"I","I","I">>, <<"I","V">>, <<"V">>,
      <<"j","r">>, <<"J","R",".">>, <<"s","R">>, <<"i","i","I">>,
      <<"i","v">>, <<"v">> }

InitNormalize ==
    /\ pc = "start"
    /\ players = <<>>
    /\ records = <<>>
    /\ week = 5
    /\ season = 2023
    /\ team_scores = <<>>
    /\ error = NoError
    /\ csv_player = <<>>
    /\ player_stats_df = <<>>
    /\ has_team_column = TRUE
    /\ strict_team_match = FALSE
    /\ match = 0
    /\ player_scores = <<>>
    /\ lineup = <<>>
    /\ call_args \in { [name |-> x, suffix |-> sfx] :
                       x \in SeqsUpTo(NameChars, MaxNameLen),
                       sfx \in SuffixSpellings }
    /\ returned = <<>>
    /\ cache = <<>>
    /\ fetch_log = <<>>

\* normalize_name(name) and normalize_name(name + " " + suffix)
NormalizeName ==
    /\ pc = "start"
    /\ pc' = "normalized"
    /\ returned' = [name |-> normalize_name(call_args.name),
                    suffixed |-> normalize_name(call_args.name \o <<" ">>
                                                \o call_args.suffix)]
    /\ UNCHANGED <<players, records, week, season, team_scores, error,
                   csv_player, player_stats_df, has_team_column,
                   strict_team_match, match, player_scores, lineup,
                   call_args,
                   cache, fetch_log>>

\* normalize_name applied to the name it returned
NormalizeAgain ==
    /\ pc = "normalized"
    /\ pc' = "done"
    /\ returned' = [name |-> returned.name, suffixed |-> returned.suffixed,
                    again |-> normalize_name(returned.name)]
    /\ UNCHANGED <<players, records, week, season, team_scores, error,
                   csv_player, player_stats_df, has_team_column,
                   strict_team_match, match, player_scores, lineup,
                   call_args,
                   cache, fetch_log>>

NextNormalize == NormalizeName \/ NormalizeAgain

SpecNormalize == InitNormalize /\ [][NextNormalize]_vars

\* C16: normalize_name is idempotent: normalizing a name it returned gives
\* that name back, also for names with several trailing suffix tokens or a
\* lone trailing letter such as V.
C16_NormalizeIdempotent ==
    Done => returned.again = returned.name

\* s ends in a suffix token that follows a whitespace character
EndsInSuffixToken(s) ==
    \E k \in 2..Len(s) :
        /\ IsSpace(s[k - 1])
        /\ \E t \in SuffixTokens :
            /\ Len(t) = Len(s) - k + 1
            /\ \A i \in 1..Len(t) : ToLower(s[k + i - 1]) = t[i]

\* C17 as claimed: for every non-empty name that does not itself end in a
\* whitespace-preceded suffix token, the name followed by a blank and a
\* suffix normalizes as the name alone.
C17_SuffixStripped ==
    (pc # "start" /\ call_args.name # <<>>
     /\ ~EndsInSuffixToken(call_args.name))
        => returned.suffixed = returned.name

Trimmed(s) == Strip(s)

\* C17: for every name whose trimmed form is non-empty and does not end in a
\* whitespace-preceded suffix token, the name followed by a blank and a
\* suffix (Jr, Jr., Sr, Sr., II, III, IV, V in any letter case) normalizes
\* as the name alone.
C17_SuffixStrippedFromTrimmedName ==
    (pc # "start" /\ Trimmed(call_args.name) # <<>>
     /\ ~EndsInSuffixToken(Trimmed(call_args.name)))
        => returned.suffixed = returned.name

\* witness for C17: an upper-case "JR." was stripped from a dotted name
W17_UpperCaseSuffixStripped ==
    /\ pc = "done"
    /\ call_args.name = <<"a", ".", "a">>
    /\ call_args.suffix = <<"J","R",".">>
    /\ returned.suffixed = <<"a", " ", "a">>

-----------------------------------------------------------------------------
(* Direct calls of player_matcher.fuzzy_match_name *)

MaxTokens == 3

\* two first names, a surname and two initials
NameTokens ==
    { <<"A","l">>, <<"D","i">>, <<"M","o">>, <<"A",".">>, <<"M",".">> }

\* the tokens written with one blank between them
RECURSIVE JoinTokens(_)
JoinTokens(tokens) ==
    IF tokens = <<>> THEN <<>>
    ELSE IF Len(tokens) = 1 THEN tokens[1]
    ELSE tokens[1] \o <<" ">> \o JoinTokens(Tail(tokens))

\* the names of at most MaxTokens tokens that repeat no token
NamePool == { JoinTokens(ts) : ts \in DistinctSeqsUpTo(NameTokens, MaxTokens) }

InitFuzzy ==
    /\ pc = "start"
    /\ players = <<>>
    /\ records = <<>>
    /\ week = 5
    /\ season = 2023
    /\ team_scores = <<>>
    /\ error = NoError
    /\ csv_player = <<>>
    /\ player_stats_df = <<>>
    /\ has_team_column = TRUE
    /\ strict_team_match = FALSE
    /\ match = 0
    /\ player_scores = <<>>
    /\ lineup = <<>>
    /\ call_args \in { [csv_name |-> a, api_name |-> b] :
                       a \in NamePool, b \in NamePool }
    /\ returned = <<>>
    /\ cache = <<>>
    /\ fetch_log = <<>>

FuzzyMatchName ==
    /\ pc = "start"
    /\ pc' = "done"
    /\ returned' = [matched |-> fuzzy_match_name(call_args.csv_name,
                                                 call_args.api_name)]
    /\ UNCHANGED <<players, records, week, season, team_scores, error,
                   csv_player, player_stats_df, has_team_column,
                   strict_team_match, match, player_scores, lineup,
                   call_args,
                   cache, fetch_log>>

NextFuzzy == FuzzyMatchName

SpecFuzzy == InitFuzzy /\ [][NextFuzzy]_vars

\* C18: fuzzy_match_name is symmetric: the call with the two names exchanged
\* returns the same answer, whichever rule decides.
C18_FuzzySymmetric ==
    Done => returned.matched = fuzzy_match_name(call_args.api_name,
                                                call_args.csv_name)

\* witness for C18: a lone initial matched a full name, which only the
\* containment of the first name in the second decides
W18_InitialInsideFullName ==
    /\ Done
    /\ call_args.csv_name = <<"A",".">>
    /\ call_args.api_name = <<"D","i"," ","M","o"," ","A","l">>
    /\ returned.matched = TRUE

\* the tokens of the normalized name that are not a single letter
NonInitialTokens(name) ==
    LET words == Split(normalize_name(name))
        keep == { j \in 1..Len(words) :
                    ~(Len(words[j]) = 1 /\ words[j][1] \notin Digits) }
    IN [ws |-> words, at |-> keep]

TokenSet(name) ==
    LET t == NonInitialTokens(name) IN { t.ws[j] : j \in t.at }

LastToken(name) ==
    LET t == NonInitialTokens(name)
    IN t.ws[CHOOSE j \in t.at : \A k \in t.at : k <= j]

\* C19: the answer is True whenever both names have a non-initial token
\* after normalization and the set of non-initial tokens of one is a subset
\* of the other's, in either direction and in any token order.
C19_TokenSubsetMatches ==
    (/\ Done
     /\ TokenSet(call_args.csv_name) # {}
     /\ TokenSet(call_args.api_name) # {}
     /\ \/ TokenSet(call_args.csv_name) \subseteq TokenSet(call_args.api_name)
        \/ TokenSet(call_args.api_name) \subseteq TokenSet(call_args.csv_name))
        => returned.matched = TRUE

\* witness for C19: the longer name holds both tokens of the shorter one in
\* the other order, with a different last token and another token between
W19_ReorderedSubset ==
    /\ Done
    /\ call_args.csv_name = <<"M","o"," ","D","i"," ","A","l">>
    /\ call_args.api_name = <<"A","l"," ","M","o">>
    /\ returned.matched = TRUE

\* C20: the answer is True for any two names that each have a non-initial
\* token and whose last non-initial tokens are equal.
C20_SameLastTokenMatches ==
    (/\ Done
     /\ TokenSet(call_args.csv_name) # {}
     /\ TokenSet(call_args.api_name) # {}
     /\ LastToken(call_args.csv_name) = LastToken(call_args.api_name))
        => returned.matched = TRUE

\* witness for C20: two different first names with the same surname matched
W20_SameSurnameOtherFirstName ==
    /\ Done
    /\ call_args.csv_name = <<"A","l"," ","M","o">>
    /\ call_args.api_name = <<"D","i"," ","M","o">>
    /\ returned.matched = TRUE

-----------------------------------------------------------------------------
(* Further claims about fuzzy_match_name, under SpecFuzzy *)

\* every whitespace-delimited token of the normalized name
AllTokens(name) ==
    LET words == Split(normalize_name(name))
    IN { words[j] : j \in 1..Len(words) }

\* a occurs in b as a run of consecutive characters
OccursIn(a, b) ==
    \E i \in 0..(Len(b) - Len(a)) : \A j \in 1..Len(a) : b[i + j] = a[j]

\* C21: the answer is False for two non-empty names that, after
\* normalization, share no whitespace-delimited token and of which neither
\* is a substring of the other.
C21_UnrelatedNamesDoNotMatch ==
    (/\ Done
     /\ call_args.csv_name # <<>>
     /\ call_args.api_name # <<>>
     /\ AllTokens(call_args.csv_name) \cap AllTokens(call_args.api_name) = {}
     /\ ~OccursIn(normalize_name(call_args.csv_name),
                  normalize_name(call_args.api_name))
     /\ ~OccursIn(normalize_name(call_args.api_name),
                  normalize_name(call_args.csv_name)))
        => returned.matched = FALSE

\* witness for C21: two full names without a common token were told apart
W21_NoCommonToken ==
    /\ Done
    /\ call_args.csv_name = <<"A","l"," ","M","o">>
    /\ call_args.api_name = <<"D","i"," ","A",".">>
    /\ returned.matched = FALSE

-----------------------------------------------------------------------------
(* ffdp_fetcher.FFDPFetcher.  The fetcher reads player.name, player.position
   and player.team; a player is a record with these three fields.  A record
   of the week data is [player_name, position, team, scores], where scores
   holds the score fields the record carries: "fantasy_points" for a plain
   number, "fantasy_points.standard", "fantasy_points.ppr" and
   "fantasy_points.half_ppr" for the entries of a fantasy_points dict, and
   "pts", "points", "fantasy_pts", "score".  Scores are in thousandths. *)

KAN == <<"K","A","N">>
GNB == <<"G","N","B">>
BUF == <<"B","U","F">>

\* self._normalize_name
ffdp_normalize_name(name) == Strip(Lower(name))

\* TEAM_MAPPING.get(team, team)
TEAM_MAPPING(team) ==
    CASE team = <<"K","C">> -> KAN
      [] team = <<"N","E">> -> <<"N","W","E">>
      [] team = <<"N","O">> -> <<"N","O","R">>
      [] team = <<"S","F">> -> <<"S","F","O">>
      [] team = <<"G","B">> -> GNB
      [] team = <<"T","B">> -> <<"T","A","M">>
      [] team = <<"L","V">> -> <<"O","A","K">>
      [] OTHER -> team

\* self._normalize_team
ffdp_normalize_team(team) == TEAM_MAPPING(Strip(Upper(team)))

\* self._normalize_position
ffdp_normalize_position(position) == Strip(Upper(position))

\* normalized_name in api_name or api_name in normalized_name, and the teams
\* are equal
NameAndTeamMatch(player, player_data) ==
    LET normalized_name == ffdp_normalize_name(player.name)
        api_name == ffdp_normalize_name(player_data.player_name)
        api_team == Strip(Upper(player_data.team))
    IN /\ \/ IsSubstring(normalized_name, api_name)
          \/ IsSubstring(api_name, normalized_name)
       /\ ffdp_normalize_team(player.team) = api_team

\* the first loop of _find_player_in_data: the position matches too, or the
\* player has no position
FirstPassMatch(player, player_data) ==
    /\ NameAndTeamMatch(player, player_data)
    /\ \/ ffdp_normalize_position(player.position)
            = ffdp_normalize_position(player_data.position)
       \/ player.position = <<>>

\* self._find_player_in_data: the index of the record returned, 0 for None
find_player_in_data(player, week_data) ==
    LET first == { i \in 1..Len(week_data) :
                     FirstPassMatch(player, week_data[i]) }
        second == { i \in 1..Len(week_data) :
                      NameAndTeamMatch(player, week_data[i]) }
        least(S) == CHOOSE i \in S : \A j \in S : i <= j
    IN IF first # {} THEN least(first)
       ELSE IF second # {} THEN least(second)
       ELSE 0

NoScoreField == [found |-> FALSE]

\* the first of the fields, in order, that the record carries
RECURSIVE FirstField(_, _)
FirstField(scores, fields) ==
    IF fields = <<>> THEN NoScoreField
    ELSE IF Head(fields) \in DOMAIN scores
         THEN [found |-> TRUE, score |-> scores[Head(fields)]]
         ELSE FirstField(scores, Tail(fields))

\* lines 222-252: fantasy_points (a number, or a dict read as standard, ppr,
\* half_ppr), then pts, points, fantasy_pts, score
ExtractScore(player_data) ==
    FirstField(player_data.scores,
               <<"fantasy_points", "fantasy_points.standard",
                 "fantasy_points.ppr", "fantasy_points.half_ppr",
                 "pts", "points", "fantasy_pts", "score">>)

None == [kind |-> "None"]

\* what requests.get hands back: nothing before a request is made, a list of
\* records, an exception, a dict with "msg", or another value that is no list
NoRequest == [kind |-> "no request"]

\* lines 214-269 of fetch_player_score, on the week data
ScoreFromWeekData(player, week_data, wk) ==
    LET i == find_player_in_data(player, week_data)
    IN IF i = 0 THEN None
       ELSE LET player_data == week_data[i]
                extracted == ExtractScore(player_data)
            IN IF ~extracted.found THEN None
               ELSE IF ~PlayerScoreValid(Round2(extracted.score))
               THEN [kind |-> "ValueError"]
               ELSE [kind |-> "PlayerScore",
                     player_name |-> player_data.player_name,
                     position |-> Upper(player_data.position),
                     team |-> Upper(player_data.team),
                     week |-> wk,
                     score |-> Round2(extracted.score)]

\* a _fetch_week_data that never looks into the cache
fetch_week_data_uncached(c, wk, sn, response) ==
    LET cache_key == <<sn, wk>>
    IN IF response.kind # "list"
       THEN [cache |-> c, requested |-> TRUE, response |-> response,
             raised |-> TRUE, data |-> <<>>]
       ELSE [cache |-> [k \in DOMAIN c \cup {cache_key} |->
                          IF k = cache_key THEN response.data ELSE c[k]],
             requested |-> TRUE, response |-> response,
             raised |-> FALSE, data |-> response.data]

\* self._fetch_week_data: the cache afterwards, whether the API was
\* requested and with what response, and the data returned or the
\* RequestException raised
fetch_week_data(c, wk, sn, response) ==
    LET cache_key == <<sn, wk>>
    IN IF cache_key \in DOMAIN c
       THEN [cache |-> c, requested |-> FALSE, response |-> NoRequest,
             raised |-> FALSE, data |-> c[cache_key]]
       ELSE IF response.kind # "list"
       THEN [cache |-> c, requested |-> TRUE, response |-> response,
             raised |-> TRUE, data |-> <<>>]
       ELSE [cache |-> [k \in DOMAIN c \cup {cache_key} |->
                          IF k = cache_key THEN response.data ELSE c[k]],
             requested |-> TRUE, response |-> response,
             raised |-> FALSE, data |-> response.data]

\* a fetch_player_score without the try/except around _fetch_week_data
fetch_player_score_uncaught(c, player, wk, sn, response) ==
    LET f == fetch_week_data(c, wk, sn, response)
    IN [cache |-> f.cache, requested |-> f.requested,
        response |-> f.response,
        result |-> IF f.raised THEN [kind |-> "RequestException"]
                   ELSE ScoreFromWeekData(player, f.data, wk)]

\* self.fetch_player_score
fetch_player_score(c, player, wk, sn, response) ==
    LET f == fetch_week_data(c, wk, sn, response)
    IN [cache |-> f.cache, requested |-> f.requested,
        response |-> f.response,
        result |-> IF f.raised THEN None
                   ELSE ScoreFromWeekData(player, f.data, wk)]

\* one record of the log of calls
LogEntry(player, wk, sn, r) ==
    [player |-> player, week |-> wk, season |-> sn,
     requested |-> r.requested, response |-> r.response,
     result |-> r.result]

\* BaseScoreFetcher.fetch_player_scores: fetch_player_score for each player
\* in turn, responses[i] being what the API answers if the i-th call asks
\* it; a ValueError of a PlayerScore ends the loop.  Gives the cache and the
\* log afterwards and the list returned (or the exception).
RECURSIVE fetch_player_scores(_, _, _, _, _, _, _)
fetch_player_scores(c, log, roster, wk, sn, responses, scores) ==
    IF roster = <<>>
    THEN [cache |-> c, log |-> log,
          result |-> [kind |-> "list", scores |-> scores]]
    ELSE LET r == fetch_player_score(c, Head(roster), wk, sn, Head(responses))
             entry == LogEntry(Head(roster), wk, sn, r)
         IN IF r.result.kind = "ValueError"
            THEN [cache |-> r.cache, log |-> Append(log, entry),
                  result |-> r.result]
            ELSE fetch_player_scores(r.cache, Append(log, entry),
                                     Tail(roster), wk, sn, Tail(responses),
                                     IF r.result = None THEN scores
                                     ELSE Append(scores, r.result))

-----------------------------------------------------------------------------
(* Calls of FFDPFetcher.fetch_player_score and fetch_player_scores on one
   fetcher, the API answering each request as it likes *)

MaxFetches == 3

FetchSeason == 2024

FetchWeeks == {5, 6}

\* a quarterback of a team the mapping renames and a running back of a team
\* it leaves alone (written in lower case with blanks)
FetchRoster ==
    << [name |-> AlMo, position |-> QB, team |-> KC],
       [name |-> <<"b","o"," ","d","i">>, position |-> <<"r","b"," ">>,
        team |-> <<" ","b","u","f">>] >>

FetchPlayers == { FetchRoster[i] : i \in 1..Len(FetchRoster) }

WeekRecord(player_name, position, team, scores) ==
    [player_name |-> player_name, position |-> position, team |-> team,
     scores |-> scores]

\* the week as the tests write it: team codes as on the roster
WeekDataRosterCodes ==
    << WeekRecord(AlMo, QB, KC, [fantasy_points |-> 25500]),
       WeekRecord(BoDi, RB, BUF, ("fantasy_points.ppr" :> 18300)) >>

\* the week as the API writes it: its own team codes, a namesake first, a
\* record without any score field
WeekDataApiCodes ==
    << WeekRecord(<<"A","l"," ","M","o"," ","J","r">>, WR, KAN,
                  [pts |-> 7000]),
       WeekRecord(AlMo, QB, KAN, [fantasy_points |-> 20004]),
       WeekRecord(BoDi, RB, BUF, <<>>) >>

ApiResponses ==
    { [kind |-> "list", data |-> WeekDataRosterCodes],
      [kind |-> "list", data |-> WeekDataApiCodes],
      [kind |-> "RequestException"],
      [kind |-> "msg"],
      [kind |-> "not a list"] }

InitFetcher ==
    /\ pc = "start"
    /\ players = <<>>
    /\ records = <<>>
    /\ week = 5
    /\ season = 2023
    /\ team_scores = <<>>
    /\ error = NoError
    /\ csv_player = <<>>
    /\ player_stats_df = <<>>
    /\ has_team_column = TRUE
    /\ strict_team_match = FALSE
    /\ match = 0
    /\ player_scores = <<>>
    /\ lineup = <<>>
    /\ call_args = <<>>
    /\ returned = <<>>
    /\ cache = <<>>
    /\ fetch_log = <<>>

FetchPlayerScore ==
    /\ Len(fetch_log) < MaxFetches
    /\ \E player \in FetchPlayers : \E wk \in FetchWeeks :
       \E response \in ApiResponses :
        LET r == fetch_player_score(cache, player, wk, FetchSeason, response)
        IN /\ cache' = r.cache
           /\ fetch_log' = Append(fetch_log,
                                  LogEntry(player, wk, FetchSeason, r))
    /\ UNCHANGED <<pc, players, records, week, season, team_scores, error,
                   csv_player, player_stats_df, has_team_column,
                   strict_team_match, match, player_scores, lineup,
                   call_args, returned>>

FetchPlayerScores ==
    /\ Len(fetch_log) + Len(FetchRoster) <= MaxFetches
    /\ \E wk \in FetchWeeks :
       \E responses \in [1..Len(FetchRoster) -> ApiResponses] :
        LET r == fetch_player_scores(cache, fetch_log, FetchRoster, wk,
                                     FetchSeason, responses, <<>>)
        IN /\ cache' = r.cache
           /\ fetch_log' = r.log
    /\ UNCHANGED <<pc, players, records, week, season, team_scores, error,
                   csv_player, player_stats_df, has_team_column,
                   strict_team_match, match, player_scores, lineup,
                   call_args, returned>>

NextFetcher == FetchPlayerScore \/ FetchPlayerScores

SpecFetcher == InitFetcher /\ [][NextFetcher]_vars

Calls == 1..Len(fetch_log)

CacheKey(i) == <<fetch_log[i].season, fetch_log[i].week>>

\* the i-th call asked the API and got a list of records
Succeeded(i) == fetch_log[i].requested /\ fetch_log[i].response.kind = "list"

\* the i-th call asked the API and got an exception, an error message or
\* something that is no list
Failed(i) == fetch_log[i].requested /\ fetch_log[i].response.kind # "list"

\* C23: after a successful API response for a (season, week), no later call
\* for that (season, week) requests the API (so each key succeeds at most
\* once), every later call is answered from the data of that response, and
\* the cache keeps exactly that data for the key.
C23_WeekDataCached ==
    \A i \in Calls :
        Succeeded(i) =>
            /\ CacheKey(i) \in DOMAIN cache
            /\ cache[CacheKey(i)] = fetch_log[i].response.data
            /\ \A j \in Calls :
                (j > i /\ CacheKey(j) = CacheKey(i)) =>
                    /\ ~fetch_log[j].requested
                    /\ fetch_log[j].result
                         = ScoreFromWeekData(fetch_log[j].player,
                                             fetch_log[i].response.data,
                                             fetch_log[j].week)

\* witness for C23: a week failed, then succeeded, then was read from the
\* cache while the other week was never fetched
W23_SecondCallFromCache ==
    /\ Len(fetch_log) = 3
    /\ Failed(1)
    /\ Succeeded(2)
    /\ CacheKey(1) = CacheKey(2)
    /\ CacheKey(3) = CacheKey(2)
    /\ ~fetch_log[3].requested
    /\ fetch_log[3].result.kind = "PlayerScore"
    /\ DOMAIN cache = {CacheKey(2)}

\* C24: a call whose API request fails, or is answered by an error message
\* or by something that is no list, returns None, leaves the (season, week)
\* out of the cache, and the next call for that (season, week) requests the
\* API again.
C24_FailureReturnsNone ==
    \A i \in Calls :
        Failed(i) =>
            /\ fetch_log[i].result = None
            /\ \A j \in Calls :
                (/\ j > i
                 /\ CacheKey(j) = CacheKey(i)
                 /\ \A k \in (i + 1)..(j - 1) : CacheKey(k) # CacheKey(i))
                    => fetch_log[j].requested
            /\ (\A j \in Calls : (j > i /\ CacheKey(j) = CacheKey(i))
                                  => ~Succeeded(j))
                => CacheKey(i) \notin DOMAIN cache

\* witness for C24: an error message, then a request for the same week again
W24_RequestedAgainAfterFailure ==
    /\ Len(fetch_log) >= 2
    /\ Failed(1)
    /\ fetch_log[1].response.kind = "msg"
    /\ CacheKey(2) = CacheKey(1)
    /\ fetch_log[2].requested
    /\ fetch_log[1].result = None

\* the week data the i-th call worked on
WeekDataOf(i) == cache[CacheKey(i)]

\* the record has the player's name, position and team code, compared
\* without regard to case and surrounding blanks
SamePlayer(player, player_data) ==
    /\ Strip(Lower(player.name)) = Strip(Lower(player_data.player_name))
    /\ Strip(Upper(player.position)) = Strip(Upper(player_data.position))
    /\ Strip(Upper(player.team)) = Strip(Upper(player_data.team))

\* C25: whenever the week data holds a record with the player's name,
\* position and team code (case-insensitive, trimmed), whatever the team
\* code, and that record carries a score, fetch_player_score returns a score
\* for that record and not None.
C25_EqualRecordIsFound ==
    \A i \in Calls :
        ~Failed(i) =>
            \A n \in 1..Len(WeekDataOf(i)) :
                (/\ SamePlayer(fetch_log[i].player, WeekDataOf(i)[n])
                 /\ DOMAIN WeekDataOf(i)[n].scores # {}) =>
                    /\ fetch_log[i].result.kind = "PlayerScore"
                    /\ fetch_log[i].result.player_name
                         = WeekDataOf(i)[n].player_name

-----------------------------------------------------------------------------
(* Claims about how calculate_week_score resolves roster entries, under Spec *)

\* the week's rows with the entry's name, team and position
ExactRows(player) ==
    { i \in 1..Len(week_stats) :
        /\ Strip(Lower(week_stats[i].player_name))
             = Strip(Lower(player.player_name))
        /\ Strip(Upper(week_stats[i].team)) = Strip(Upper(player.player_team))
        /\ Strip(Upper(week_stats[i].position))
             = Strip(Upper(player.player_position)) }

\* the week's rows with the entry's name and position
NameAndPositionRows(player) ==
    { i \in 1..Len(week_stats) :
        /\ Strip(Lower(week_stats[i].player_name))
             = Strip(Lower(player.player_name))
        /\ Strip(Upper(week_stats[i].position))
             = Strip(Upper(player.player_position)) }

ScoresOfRows(rows) == { RowScore(week_stats[i], week, season) : i \in rows }

\* C26: a roster entry is scored from a row with its lower-cased trimmed
\* name, upper-cased trimmed team and upper-cased trimmed position when such
\* a row exists; only when none exists is it scored from a row with its name
\* and position and another team; and a player is reported as not found only
\* when no row has both its name and its position.
C26_ExactKeyThenNameAndPosition ==
    /\ (Done /\ error = NoError) =>
        \A k \in 1..Len(team_scores) :
            LET ts == team_scores[k]
                team_players == TeamPlayers(players, ts.fantasy_team)
            IN /\ Len(ts.player_scores) = Len(team_players)
               /\ \A j \in 1..Len(team_players) :
                    IF ExactRows(team_players[j]) # {}
                    THEN ts.player_scores[j]
                           \in ScoresOfRows(ExactRows(team_players[j]))
                    ELSE ts.player_scores[j]
                           \in ScoresOfRows(NameAndPositionRows(team_players[j]))
    /\ (Done /\ error.kind = "not_found") =>
        \E i \in 1..Len(players) :
            /\ NameAndPositionRows(players[i]) = {}
            /\ error = NotFoundError(players[i], players[i].fantasy_team,
                                     week, season)

\* witness for C26: one entry scored from a row of its own team although a
\* row of another team with its name and position stands earlier, and one
\* entry scored from a row of another team
W26_BothWaysOfResolving ==
    /\ Done
    /\ error = NoError
    /\ \E i \in 1..Len(players) :
        /\ ExactRows(players[i]) # {}
        /\ \E e \in ExactRows(players[i]) :
           \E n \in NameAndPositionRows(players[i]) \ ExactRows(players[i]) :
              n < e
    /\ \E i \in 1..Len(players) :
        /\ ExactRows(players[i]) = {}
        /\ NameAndPositionRows(players[i]) # {}

\* the records without the i-th
WithoutRecord(i) ==
    SubSeq(records, 1, i - 1) \o SubSeq(records, i + 1, Len(records))

\* the i-th record belongs to the requested week and no roster entry has its
\* name and position
MatchedByNoEntry(i) ==
    /\ records[i].season = season
    /\ records[i].week = week
    /\ \A j \in 1..Len(players) :
        ~(/\ Strip(Lower(records[i].player_name))
               = Strip(Lower(players[j].player_name))
          /\ Strip(Upper(records[i].position))
               = Strip(Upper(players[j].player_position)))

\* C27: a record of the week that no roster entry matches has no influence:
\* if the run without it succeeds, the run with it succeeds with the same
\* team scores.
C27_UnmatchedRecordIrrelevant ==
    Done =>
        \A i \in 1..Len(records) :
            MatchedByNoEntry(i) =>
                LET without == calculate_week_score(players, WithoutRecord(i),
                                                    week, season)
                IN without.error = NoError =>
                    /\ error = NoError
                    /\ team_scores = without.team_scores

-----------------------------------------------------------------------------
(* Claim about empty names, under SpecFuzzy *)

NormalizesToEmpty(name) == normalize_name(name) = <<>>

\* C28: fuzzy_match_name returns False whenever exactly one of the two names
\* normalizes to the empty string.
C28_EmptyNameNeverMatches ==
    (Done /\ NormalizesToEmpty(call_args.csv_name)
             # NormalizesToEmpty(call_args.api_name))
        => returned.matched = FALSE

-----------------------------------------------------------------------------
(* Claim about the shape of normalized names, under SpecNormalize *)

NoPeriodAndTrimmed(s) ==
    /\ \A i \in 1..Len(s) : s[i] # "."
    /\ s # <<>> => (~IsSpace(s[1]) /\ ~IsSpace(s[Len(s)]))

\* C29 as claimed: for every input the result of normalize_name contains no
\* period and no upper-case letter and has no leading or trailing
\* whitespace.
C29_NormalizedShape ==
    pc # "start" =>
        /\ NoPeriodAndTrimmed(returned.name)
        /\ \A i \in 1..Len(returned.name) :
            /\ ~IsUpper(returned.name[i])
            /\ returned.name[i] \notin UncasedCapitals

\* C29: for every input the result of normalize_name contains no period and
\* no letter that has a lower-case form other than itself, and has no
\* leading or trailing whitespace.
C29_NormalizedShapeOfCasedLetters ==
    pc # "start" =>
        /\ NoPeriodAndTrimmed(returned.name)
        /\ \A i \in 1..Len(returned.name) :
            ToLower(returned.name[i]) = returned.name[i]

\* witness for C29: a name with periods, a capital and a blank before it
\* came back in lower case with one blank inside
W29_PeriodsAndCapitalsRemoved ==
    /\ pc # "start"
    /\ call_args.name = <<" ", "a", ".", "V", ".">>
    /\ returned.name = <<"a", " ", "v">>

-----------------------------------------------------------------------------
(* Claim about the teams of the returned list, under Spec *)

FantasyTeams == { players[i].fantasy_team : i \in 1..Len(players) }

OwnEntries(fantasy_team) ==
    { i \in 1..Len(players) : players[i].fantasy_team = fantasy_team }

\* C30: on success the returned list holds exactly one TeamScore for each
\* fantasy_team of the roster, and a team's lineup holds one PlayerScore for
\* each of its own roster entries, each of them resolved for one of these
\* entries: no entry of another team contributes to the lineup or the total.
C30_OneScorePerTeamOwnPlayersOnly ==
    (Done /\ error = NoError) =>
        /\ { team_scores[k].fantasy_team : k \in 1..Len(team_scores) }
             = FantasyTeams
        /\ Len(team_scores) = Cardinality(FantasyTeams)
        /\ \A k \in 1..Len(team_scores) :
            LET ts == team_scores[k]
                own == OwnEntries(ts.fantasy_team)
            IN /\ Len(ts.player_scores) = Cardinality(own)
               /\ \A j \in 1..Len(ts.player_scores) :
                    \E i \in own :
                        ts.player_scores[j]
                          \in ScoresOfRows(NameAndPositionRows(players[i]))
               /\ ts.total_points
                    = LineupSum(ts.player_scores, Len(ts.player_scores))

\* witness for C30: two teams returned, each with the one player it rosters,
\* the two players being scored from different rows
W30_TwoTeamsOwnPlayers ==
    /\ Done
    /\ error = NoError
    /\ Len(team_scores) = 2
    /\ Len(team_scores[1].player_scores) = 1
    /\ Len(team_scores[2].player_scores) = 1
    /\ team_scores[1].player_scores[1].player_name
         # team_scores[2].player_scores[1].player_name

====
